---- MODULE Spec2Model ----
(***************************************************************************)
(* Library circulation service: the business-rule layer of                 *)
(* library_service.py (add_book_to_catalog, borrow_book_by_patron,         *)
(* return_book_by_patron, calculate_late_fee_for_book,                     *)
(* get_patron_status_report) over the data-access interface of database.py.*)
(*                                                                         *)
(* Strings are sequences of one-character strings.  Timestamps are whole   *)
(* days (the fee arithmetic only uses .date() differences and the loan     *)
(* period is a whole number of days).  Currency is integer cents: every    *)
(* fee the code computes is a multiple of 0.50, which binary floating      *)
(* point represents exactly, so round(fee, 2) changes nothing.             *)
(***************************************************************************)
EXTENDS Integers, Sequences, FiniteSets

VARIABLES
    books,      \* table books: sequence of rows, row i has id i
    records,    \* table borrow_records: sequence of rows in insertion order
    today,      \* datetime.now(), in whole days
    res,        \* the value returned by the last public operation
    proc        \* interleaved borrow requests: position and locals of each

vars == <<books, records, today, res, proc>>

---------------------------------------------------------------------------
(* Bounds of the model *)

MaxRecords == 2        \* rows of borrow_records explored by Spec
MaxSurplus == 1        \* available_copies explored up to total_copies + MaxSurplus
MaxLimitRecords == 7   \* rows of borrow_records explored by SpecLimit
MaxFeeRecords == 2     \* rows of borrow_records explored by SpecFee
MaxBorrowDay == 1      \* SpecFee: the last day on which a loan is made
MaxDay == 56           \* SpecFee: the last day explored
MaxProcs == 2          \* SpecRace: number of interleaved borrow requests

(* Program constants *)

TitleMax == 200
AuthorMax == 100
IsbnLen == 13
PatronIdLen == 6
BorrowLimit == 5
LoanDays == 14
FirstWeekDays == 7
FirstWeekRate == 50
LaterRate == 100
FeeCap == 1500

---------------------------------------------------------------------------
(* Strings *)

Rep(c, n) == [i \in 1..n |-> c]

Digits == {"0", "1", "2", "3", "4", "5", "6", "7", "8", "9"}

IsSpace(c) == c \in {" ", "\t", "\n"}

RECURSIVE LStrip(_)
LStrip(s) == IF s = <<>> THEN s
             ELSE IF IsSpace(Head(s)) THEN LStrip(Tail(s)) ELSE s

RECURSIVE RStrip(_)
RStrip(s) == IF s = <<>> THEN s
             ELSE IF IsSpace(s[Len(s)]) THEN RStrip(SubSeq(s, 1, Len(s) - 1)) ELSE s

\* str.strip()
Strip(s) == RStrip(LStrip(s))

\* str.isdigit(): non-empty and every character a digit
IsDigit(s) == s # <<>> /\ \A i \in 1..Len(s) : s[i] \in Digits

\* not patron_id or not patron_id.isdigit() or len(patron_id) != 6
InvalidPatronId(patron_id) ==
    patron_id = <<>> \/ ~IsDigit(patron_id) \/ Len(patron_id) # PatronIdLen

NoDate == -1

---------------------------------------------------------------------------
(* Messages *)

MsgTitleRequired == "Title is required."
MsgTitleLong == "Title must be less than 200 characters."
MsgAuthorRequired == "Author is required."
MsgAuthorLong == "Author must be less than 100 characters."
MsgIsbnLen == "ISBN must be exactly 13 digits."
MsgCopies == "Total copies must be a positive integer."
MsgIsbnExists == "A book with this ISBN already exists."
MsgAdded == "Book has been successfully added to the catalog."
MsgAddDbError == "Database error occurred while adding the book."
MsgInvalidPatron == "Invalid patron ID. Must be exactly 6 digits."
MsgBookNotFound == "Book not found."
MsgNotAvailable == "This book is currently not available."
MsgLimit == "You have reached the maximum borrowing limit of 5 books."
MsgBorrowDbError == "Database error occurred while creating borrow record."
MsgAvailDbError == "Database error occurred while updating book availability."
MsgBorrowed == "Successfully borrowed. Due date."
MsgNotBorrowed == "This book is not currently being borrowed by you."
MsgReturnDbError == "Error while updating return record."
MsgReturnAvailDbError == "Error while updating book availability."
MsgReturned == "Successfully returned book."

---------------------------------------------------------------------------
(* Data-access interface (database.py), on explicit tables *)

\* getBookById: the row with that id, as a sequence of zero or one rows
get_book_by_id(bks, book_id) ==
    IF book_id \in 1..Len(bks) THEN <<bks[book_id]>> ELSE <<>>

\* getBookByIsbn
get_book_by_isbn(bks, isbn) == SelectSeq(bks, LAMBDA b : b.isbn = isbn)

\* insertBook: the store assigns the next id
insert_book(bks, title, author, isbn, total_copies, available_copies) ==
    Append(bks, [id |-> Len(bks) + 1, title |-> title, author |-> author,
                 isbn |-> isbn, total_copies |-> total_copies,
                 available_copies |-> available_copies])

\* updateBookAvailability: available_copies := available_copies + delta
update_book_availability(bks, book_id, delta) ==
    IF book_id \in 1..Len(bks)
    THEN [bks EXCEPT ![book_id].available_copies = @ + delta]
    ELSE bks

\* getPatronActiveBorrowRecords: the patron's unreturned rows, in table order
get_patron_borrowed_books(recs, patron_id) ==
    SelectSeq(recs, LAMBDA r : r.patron_id = patron_id /\ r.return_date = NoDate)

\* getPatronActiveBorrowCount
get_patron_borrow_count(recs, patron_id) ==
    Len(get_patron_borrowed_books(recs, patron_id))

\* insertBorrowRecord
insert_borrow_record(recs, patron_id, book_id, borrow_date, due_date) ==
    Append(recs, [patron_id |-> patron_id, book_id |-> book_id,
                  borrow_date |-> borrow_date, due_date |-> due_date,
                  return_date |-> NoDate])

\* updateBorrowRecordReturnDate: closes the patron's active row for the book
update_borrow_record_return_date(recs, patron_id, book_id, return_date) ==
    LET hit == {i \in 1..Len(recs) : /\ recs[i].patron_id = patron_id
                                     /\ recs[i].book_id = book_id
                                     /\ recs[i].return_date = NoDate}
    IN  IF hit = {} THEN recs
        ELSE LET first == CHOOSE i \in hit : \A j \in hit : i <= j
             IN  [recs EXCEPT ![first].return_date = return_date]

---------------------------------------------------------------------------
(* add_book_to_catalog *)

\* the duplicate check left out
DuplicateIsbnUnchecked(bks, isbn) == FALSE

\* existing = get_book_by_isbn(isbn); if existing
DuplicateIsbn(bks, isbn) == get_book_by_isbn(bks, isbn) # <<>>

\* The returned (success, message) and the table it leaves; dbok is the
\* outcome of insert_book.  total_copies is an integer here, so of
\* `not isinstance(total_copies, int) or total_copies <= 0` the second
\* disjunct decides.
add_book_result(bks, title, author, isbn, total_copies, dbok) ==
    LET Fail(m) == [ok |-> FALSE, msg |-> m, books |-> bks]
    IN  IF Strip(title) = <<>> THEN Fail(MsgTitleRequired)
        ELSE IF Len(Strip(title)) > TitleMax THEN Fail(MsgTitleLong)
        ELSE IF Strip(author) = <<>> THEN Fail(MsgAuthorRequired)
        ELSE IF Len(Strip(author)) > AuthorMax THEN Fail(MsgAuthorLong)
        ELSE IF Len(isbn) # IsbnLen THEN Fail(MsgIsbnLen)
        ELSE IF total_copies <= 0 THEN Fail(MsgCopies)
        ELSE IF DuplicateIsbn(bks, isbn) THEN Fail(MsgIsbnExists)
        ELSE IF dbok
             THEN [ok |-> TRUE, msg |-> MsgAdded,
                   books |-> insert_book(bks, Strip(title), Strip(author), isbn,
                                         total_copies, total_copies)]
             ELSE Fail(MsgAddDbError)

add_book_to_catalog(title, author, isbn, total_copies, dbok) ==
    LET r == add_book_result(books, title, author, isbn, total_copies, dbok)
    IN  /\ books' = r.books
        /\ res' = [op |-> "add_book", ok |-> r.ok, msg |-> r.msg,
                   patron_id |-> <<>>, book_id |-> 0]
        /\ UNCHANGED <<records, today, proc>>

---------------------------------------------------------------------------
(* borrow_book_by_patron *)

\* the availability test off by one
BookUnavailableBelowZero(book) == book.available_copies < 0

\* if book['available_copies'] <= 0
BookUnavailable(book) == book.available_copies <= 0

\* if current_borrowed > 5
LimitReached(current_borrowed) == current_borrowed > BorrowLimit

\* The returned (success, message) and the tables it leaves.  fail names the
\* data-access write that fails: 0 none, 1 insert_borrow_record,
\* 2 update_book_availability.
borrow_result(bks, recs, now, patron_id, book_id, fail) ==
    LET Fail(m) == [ok |-> FALSE, msg |-> m, books |-> bks, records |-> recs]
        book == get_book_by_id(bks, book_id)
        current_borrowed == get_patron_borrow_count(recs, patron_id)
        borrow_date == now
        due_date == borrow_date + LoanDays
        inserted == insert_borrow_record(recs, patron_id, book_id, borrow_date, due_date)
    IN  IF InvalidPatronId(patron_id) THEN Fail(MsgInvalidPatron)
        ELSE IF book = <<>> THEN Fail(MsgBookNotFound)
        ELSE IF BookUnavailable(book[1]) THEN Fail(MsgNotAvailable)
        ELSE IF LimitReached(current_borrowed) THEN Fail(MsgLimit)
        ELSE IF fail = 1 THEN Fail(MsgBorrowDbError)
        ELSE IF fail = 2
             THEN [ok |-> FALSE, msg |-> MsgAvailDbError, books |-> bks,
                   records |-> inserted]
        ELSE [ok |-> TRUE, msg |-> MsgBorrowed,
              books |-> update_book_availability(bks, book_id, -1),
              records |-> inserted]

borrow_book_by_patron(patron_id, book_id, fail) ==
    LET r == borrow_result(books, records, today, patron_id, book_id, fail)
    IN  /\ books' = r.books
        /\ records' = r.records
        /\ res' = [op |-> "borrow", ok |-> r.ok, msg |-> r.msg,
                   patron_id |-> patron_id, book_id |-> book_id]
        /\ UNCHANGED <<today, proc>>

---------------------------------------------------------------------------
(* return_book_by_patron *)

\* the scan continued over the whole list
ScanAll(borrowed_books, book_id) ==
    LET hit == {i \in 1..Len(borrowed_books) : borrowed_books[i].book_id = book_id}
    IN  IF borrowed_books = <<>> THEN [returned |-> FALSE, borrowed |-> <<>>]
        ELSE IF hit = {} THEN [returned |-> TRUE, borrowed |-> <<>>]
        ELSE [returned |-> FALSE,
              borrowed |-> <<borrowed_books[CHOOSE i \in hit : \A j \in hit : i <= j]>>]

\* for i in borrowed_books: if i["book_id"] == book_id: borrowed = i; break
\*                          else: return ...
\* Both branches of the first iteration leave the loop, so only the first
\* element is inspected; an empty list runs no iteration and falls through
\* with borrowed = None.
ScanFirst(borrowed_books, book_id) ==
    IF borrowed_books = <<>>
    THEN [returned |-> FALSE, borrowed |-> <<>>]
    ELSE IF borrowed_books[1].book_id = book_id
         THEN [returned |-> FALSE, borrowed |-> <<borrowed_books[1]>>]
         ELSE [returned |-> TRUE, borrowed |-> <<>>]

\* fail: 0 none, 1 update_borrow_record_return_date, 2 update_book_availability.
\* (type(book_id) is not int is unreachable for the integer ids modelled.)
return_result(bks, recs, now, patron_id, book_id, fail) ==
    LET Fail(m) == [ok |-> FALSE, msg |-> m, books |-> bks, records |-> recs]
        book == get_book_by_id(bks, book_id)
        borrowed_books == get_patron_borrowed_books(recs, patron_id)
        closed == update_borrow_record_return_date(recs, patron_id, book_id, now)
    IN  IF InvalidPatronId(patron_id) THEN Fail(MsgInvalidPatron)
        ELSE IF book = <<>> THEN Fail(MsgBookNotFound)
        ELSE IF ScanFirst(borrowed_books, book_id).returned THEN Fail(MsgNotBorrowed)
        ELSE IF fail = 1 THEN Fail(MsgReturnDbError)
        ELSE IF fail = 2
             THEN [ok |-> FALSE, msg |-> MsgReturnAvailDbError, books |-> bks,
                   records |-> closed]
        ELSE [ok |-> TRUE, msg |-> MsgReturned,
              books |-> update_book_availability(bks, book_id, 1),
              records |-> closed]

return_book_by_patron(patron_id, book_id, fail) ==
    LET r == return_result(books, records, today, patron_id, book_id, fail)
    IN  /\ books' = r.books
        /\ records' = r.records
        /\ res' = [op |-> "return", ok |-> r.ok, msg |-> r.msg,
                   patron_id |-> patron_id, book_id |-> book_id]
        /\ UNCHANGED <<today, proc>>

---------------------------------------------------------------------------
(* calculate_late_fee_for_book *)

Min(a, b) == IF a <= b THEN a ELSE b
Max(a, b) == IF a >= b THEN a ELSE b

\* the fee with the cap left out
LateFeeUncapped(days_overdue) ==
    IF days_overdue <= 0 THEN 0
    ELSE Min(days_overdue, FirstWeekDays) * FirstWeekRate
         + Max(days_overdue - FirstWeekDays, 0) * LaterRate

\* fee, in cents, of a loan days_overdue days late
LateFee(days_overdue) ==
    IF days_overdue <= 0 THEN 0
    ELSE LET first_week == Min(days_overdue, FirstWeekDays)
             remaining == Max(days_overdue - FirstWeekDays, 0)
             fee == (first_week * FirstWeekRate) + (remaining * LaterRate)
         IN  IF fee > FeeCap THEN FeeCap ELSE fee

LateStatus(days_overdue) == IF days_overdue <= 0 THEN "On time" ELSE "Overdue"

\* The returned dict.  The scan is the loop of return_book_by_patron again.
\* With no active loan the loop body never runs, borrowed stays None and
\* borrowed["due_date"] raises TypeError.  `due_date is str` is never true.
quote_result(recs, now, patron_id, book_id) ==
    LET borrowed_books == get_patron_borrowed_books(recs, patron_id)
        scan == ScanFirst(borrowed_books, book_id)
    IN  IF scan.returned
        THEN [raised |-> FALSE, fee_amount |-> 0, days_overdue |-> 0,
              status |-> "Not being borrowed"]
        ELSE IF scan.borrowed = <<>>
        THEN [raised |-> TRUE, fee_amount |-> 0, days_overdue |-> 0,
              status |-> "TypeError"]
        ELSE LET due_date == scan.borrowed[1].due_date
                 days_overdue == Max(now - due_date, 0)
             IN  [raised |-> FALSE, fee_amount |-> LateFee(days_overdue),
                  days_overdue |-> days_overdue, status |-> LateStatus(days_overdue)]

calculate_late_fee_for_book(patron_id, book_id) ==
    LET q == quote_result(records, today, patron_id, book_id)
    IN  /\ res' = [op |-> "quote", ok |-> ~q.raised, msg |-> q.status,
                   patron_id |-> patron_id, book_id |-> book_id,
                   fee_amount |-> q.fee_amount, days_overdue |-> q.days_overdue]
        /\ UNCHANGED <<books, records, today, proc>>

---------------------------------------------------------------------------
(* get_patron_status_report (the borrowing_history part, a second read of *)
(* the table that feeds nothing else, is left out)                        *)

\* borrowed_details, one entry per active loan, in list order
RECURSIVE borrowed_details(_, _, _, _)
borrowed_details(recs, now, patron_id, borrowed_books) ==
    IF borrowed_books = <<>> THEN <<>>
    ELSE LET book == Head(borrowed_books)
             fee_info == quote_result(recs, now, patron_id, book.book_id)
         IN  <<[book_id |-> book.book_id, borrow_date |-> book.borrow_date,
                due_date |-> book.due_date,
                days_overdue |-> fee_info.days_overdue,
                late_fee |-> fee_info.fee_amount, status |-> fee_info.status]>>
             \o borrowed_details(recs, now, patron_id, Tail(borrowed_books))

\* total_fees += fee_info["fee_amount"]
RECURSIVE total_fees(_)
total_fees(details) ==
    IF details = <<>> THEN 0 ELSE Head(details).late_fee + total_fees(Tail(details))

status_result(recs, now, patron_id) ==
    IF InvalidPatronId(patron_id)
    THEN [borrow_count |-> 0, borrowed_books |-> <<>>, total_late_fee |-> 0]
    ELSE LET borrowed_books == get_patron_borrowed_books(recs, patron_id)
             details == borrowed_details(recs, now, patron_id, borrowed_books)
         IN  [borrow_count |-> Len(borrowed_books), borrowed_books |-> details,
              total_late_fee |-> total_fees(details)]

get_patron_status_report(patron_id) ==
    LET r == status_result(records, today, patron_id)
    IN  /\ res' = [op |-> "status", ok |-> TRUE, msg |-> "",
                   patron_id |-> patron_id, book_id |-> 0,
                   borrow_count |-> r.borrow_count,
                   borrowed_books |-> r.borrowed_books,
                   total_late_fee |-> r.total_late_fee]
        /\ UNCHANGED <<books, records, today, proc>>

---------------------------------------------------------------------------
(* Inputs *)

P1 == Rep("1", PatronIdLen)
P2 == Rep("2", PatronIdLen)
Patrons == {P1, P2}
\* malformed: letters
BadPatronId == <<"a", "b", "c", "d", "e", "f">>
PatronIdInputs == Patrons \cup {BadPatronId}

IsbnA == Rep("9", IsbnLen)
IsbnB == Rep("8", IsbnLen)
ShortIsbn == Rep("1", 5)

BlankTitle == <<" ", " ">>
PaddedTitle == <<" ", "B", " ">>
LongTitle == Rep("A", TitleMax + 1)
GoodAuthor == <<"A">>
LongAuthor == Rep("A", AuthorMax + 1)

\* the two acceptable requests, and each field fault alone, for both isbns
AddInputs ==
    {<<PaddedTitle, GoodAuthor, isbn, 1>> : isbn \in {IsbnA, IsbnB, ShortIsbn}}
    \cup {<<title, GoodAuthor, isbn, 1>> :
            title \in {BlankTitle, LongTitle}, isbn \in {IsbnA, IsbnB}}
    \cup {<<PaddedTitle, author, isbn, 1>> :
            author \in {<<>>, LongAuthor}, isbn \in {IsbnA, IsbnB}}
    \cup {<<PaddedTitle, GoodAuthor, isbn, 0>> : isbn \in {IsbnA, IsbnB}}

MissingBookId == 9999
BookIdInputs == {1, 2, MissingBookId}

NoResult == [op |-> "none", ok |-> FALSE, msg |-> "", patron_id |-> <<>>, book_id |-> 0]
IdleProc == [pc |-> "idle", patron_id |-> <<>>, book_id |-> 0, ok |-> FALSE, msg |-> ""]

---------------------------------------------------------------------------
(* Spec: the catalog and circulation operations, called one at a time,    *)
(* every data-access call succeeding.  SpecDb: the same operations, each   *)
(* data-access write succeeding or failing.                                *)

Init ==
    /\ books = <<>>
    /\ records = <<>>
    /\ today = 0
    /\ res = NoResult
    /\ proc = [i \in 1..MaxProcs |-> IdleProc]

\* the part of the state space explored
Explored(maxRecords) ==
    /\ Len(records') <= maxRecords
    /\ \A i \in 1..Len(books') :
          books'[i].available_copies <= books'[i].total_copies + MaxSurplus

AddBook(dboks) ==
    \E in \in AddInputs, dbok \in dboks :
        add_book_to_catalog(in[1], in[2], in[3], in[4], dbok)

Borrow(patron_ids, fails) ==
    \E patron_id \in patron_ids, book_id \in BookIdInputs, fail \in fails :
        /\ borrow_book_by_patron(patron_id, book_id, fail)
        /\ Explored(MaxRecords)

Return(patron_ids, fails) ==
    \E patron_id \in patron_ids, book_id \in BookIdInputs, fail \in fails :
        /\ return_book_by_patron(patron_id, book_id, fail)
        /\ Explored(MaxRecords)

Next == AddBook({TRUE}) \/ Borrow(PatronIdInputs, {0}) \/ Return(PatronIdInputs, {0})

Spec == Init /\ [][Next]_vars

NextDb ==
    \/ AddBook(BOOLEAN)
    \/ Borrow({P1, BadPatronId}, {0, 1, 2})
    \/ Return({P1, BadPatronId}, {0, 1, 2})

SpecDb == Init /\ [][NextDb]_vars

---------------------------------------------------------------------------
(* SpecLimit: patrons borrowing and returning copies of one book that      *)
(* has more copies than the borrowing limit.                               *)

LimitCopies == 7

InitLimit ==
    /\ books = insert_book(<<>>, Strip(PaddedTitle), GoodAuthor, IsbnA,
                           LimitCopies, LimitCopies)
    /\ records = <<>>
    /\ today = 0
    /\ res = NoResult
    /\ proc = [i \in 1..MaxProcs |-> IdleProc]

BorrowLimitCase ==
    \E patron_id \in Patrons :
        /\ borrow_book_by_patron(patron_id, 1, 0)
        /\ Explored(MaxLimitRecords)

ReturnLimitCase ==
    \E patron_id \in Patrons :
        /\ return_book_by_patron(patron_id, 1, 0)
        /\ Explored(MaxLimitRecords)

NextLimit == BorrowLimitCase \/ ReturnLimitCase

SpecLimit == InitLimit /\ [][NextLimit]_vars

---------------------------------------------------------------------------
(* SpecFee: two books of one copy each; loans are made on the first days,  *)
(* time passes, fees are quoted and status reports are drawn.              *)

InitFee ==
    /\ books = insert_book(
                   insert_book(<<>>, Strip(PaddedTitle), GoodAuthor, IsbnA, 1, 1),
                   Strip(PaddedTitle), GoodAuthor, IsbnB, 1, 1)
    /\ records = <<>>
    /\ today = 0
    /\ res = NoResult
    /\ proc = [i \in 1..MaxProcs |-> IdleProc]

Tick ==
    /\ today < MaxDay
    /\ today' = today + 1
    /\ UNCHANGED <<books, records, res, proc>>

BorrowFee ==
    \E patron_id \in Patrons, book_id \in BookIdInputs :
        /\ today <= MaxBorrowDay
        /\ borrow_book_by_patron(patron_id, book_id, 0)
        /\ Explored(MaxFeeRecords)

Quote ==
    \E patron_id \in Patrons, book_id \in BookIdInputs :
        calculate_late_fee_for_book(patron_id, book_id)

StatusReport ==
    \E patron_id \in PatronIdInputs : get_patron_status_report(patron_id)

NextFee == Tick \/ BorrowFee \/ Quote \/ StatusReport

SpecFee == InitFee /\ [][NextFee]_vars

---------------------------------------------------------------------------
(* SpecRace: borrow requests for the one copy of a book, interleaved at    *)
(* the granularity of the data-access calls of borrow_book_by_patron.      *)

InitRace ==
    /\ books = insert_book(<<>>, Strip(PaddedTitle), GoodAuthor, IsbnA, 1, 1)
    /\ records = <<>>
    /\ today = 0
    /\ res = NoResult
    /\ proc = [i \in 1..MaxProcs |-> IdleProc]

Procs == 1..MaxProcs

Finish(i, ok, msg) == [proc EXCEPT ![i].pc = "done", ![i].ok = ok, ![i].msg = msg]

\* the call: patron id validation
RaceCall(i) ==
    \E patron_id \in PatronIdInputs, book_id \in {1, MissingBookId} :
        /\ proc[i].pc = "idle"
        /\ proc' = IF InvalidPatronId(patron_id)
                   THEN [proc EXCEPT ![i] = [pc |-> "done", patron_id |-> patron_id,
                                             book_id |-> book_id, ok |-> FALSE,
                                             msg |-> MsgInvalidPatron]]
                   ELSE [proc EXCEPT ![i] = [pc |-> "get_book", patron_id |-> patron_id,
                                             book_id |-> book_id, ok |-> FALSE,
                                             msg |-> ""]]
        /\ UNCHANGED <<books, records, today, res>>

\* book = get_book_by_id(book_id) and the tests on it
RaceGetBook(i) ==
    /\ proc[i].pc = "get_book"
    /\ LET book == get_book_by_id(books, proc[i].book_id)
       IN  proc' = IF book = <<>> THEN Finish(i, FALSE, MsgBookNotFound)
                   ELSE IF BookUnavailable(book[1]) THEN Finish(i, FALSE, MsgNotAvailable)
                   ELSE [proc EXCEPT ![i].pc = "count"]
    /\ UNCHANGED <<books, records, today, res>>

\* current_borrowed = get_patron_borrow_count(patron_id) and the test on it
RaceCount(i) ==
    /\ proc[i].pc = "count"
    /\ proc' = IF LimitReached(get_patron_borrow_count(records, proc[i].patron_id))
               THEN Finish(i, FALSE, MsgLimit)
               ELSE [proc EXCEPT ![i].pc = "insert"]
    /\ UNCHANGED <<books, records, today, res>>

\* insert_borrow_record(...)
RaceInsert(i) ==
    /\ proc[i].pc = "insert"
    /\ records' = insert_borrow_record(records, proc[i].patron_id, proc[i].book_id,
                                       today, today + LoanDays)
    /\ proc' = [proc EXCEPT ![i].pc = "update"]
    /\ UNCHANGED <<books, today, res>>

\* the decrement made only while a copy is left
RaceUpdateGuarded(i) ==
    /\ proc[i].pc = "update"
    /\ IF books[proc[i].book_id].available_copies > 0
       THEN /\ books' = update_book_availability(books, proc[i].book_id, -1)
            /\ proc' = Finish(i, TRUE, MsgBorrowed)
       ELSE /\ books' = books
            /\ proc' = Finish(i, FALSE, MsgAvailDbError)
    /\ UNCHANGED <<records, today, res>>

\* update_book_availability(book_id, -1) and the successful return
RaceUpdate(i) ==
    /\ proc[i].pc = "update"
    /\ books' = update_book_availability(books, proc[i].book_id, -1)
    /\ proc' = Finish(i, TRUE, MsgBorrowed)
    /\ UNCHANGED <<records, today, res>>

NextRace ==
    \E i \in Procs :
        RaceCall(i) \/ RaceGetBook(i) \/ RaceCount(i) \/ RaceInsert(i) \/ RaceUpdate(i)

SpecRace == InitRace /\ [][NextRace]_vars

---------------------------------------------------------------------------
(* Vocabulary of the properties, stated on the tables directly *)

BookIds == 1..Len(books)

\* indices of the patron's active (unreturned) rows
ActiveRows(patron_id) ==
    {i \in 1..Len(records) : /\ records[i].patron_id = patron_id
                             /\ records[i].return_date = NoDate}

ActiveRowsFor(patron_id, book_id) ==
    {i \in ActiveRows(patron_id) : records[i].book_id = book_id}

ActiveRowsOfBook(book_id) ==
    {i \in 1..Len(records) : /\ records[i].book_id = book_id
                             /\ records[i].return_date = NoDate}

FirstActiveRow(patron_id) ==
    CHOOSE i \in ActiveRows(patron_id) : \A j \in ActiveRows(patron_id) : i <= j

IsbnInCatalog(isbn) == \E i \in BookIds : books[i].isbn = isbn

\* the four field validations of addBook pass
FieldsValid(in) ==
    /\ \E i \in 1..Len(in[1]) : ~IsSpace(in[1][i])
    /\ \E i \in 1..Len(in[2]) : ~IsSpace(in[2][i])
    /\ Len(in[1]) <= TitleMax
    /\ Len(in[2]) <= AuthorMax
    /\ Len(in[3]) = IsbnLen
    /\ in[4] > 0

---------------------------------------------------------------------------
(* C1: with every data-access call succeeding, every book of the catalog   *)
(* has 0 <= available_copies <= total_copies.                              *)
AvailableWithinTotal ==
    \A b \in BookIds :
        /\ 0 <= books[b].available_copies
        /\ books[b].available_copies <= books[b].total_copies

(* C10: with every data-access call succeeding, every book has            *)
(* available_copies = total_copies - (number of its active borrow rows).   *)
CopiesConserved ==
    \A b \in BookIds :
        books[b].available_copies =
            books[b].total_copies - Cardinality(ActiveRowsOfBook(b))

(* C3: a returnBook by a well-formed patron of an existing book for which  *)
(* the patron has no active borrow row returns ok=false and leaves every   *)
(* book's available_copies and every borrow row unchanged.                 *)
ReturnNeedsActiveLoan ==
    [][(/\ res'.op = "return"
        /\ ~InvalidPatronId(res'.patron_id)
        /\ res'.book_id \in BookIds
        /\ ActiveRowsFor(res'.patron_id, res'.book_id) = {})
       => (~res'.ok /\ books' = books /\ records' = records)]_vars

(* C4: a borrow of a book with available_copies = 0 returns ok=false and   *)
(* changes nothing; a borrow that returns ok=true changes that book's      *)
(* available_copies by exactly -1 and a returnBook that returns ok=true by *)
(* exactly +1, every other book unchanged.                                 *)
BorrowReturnDelta ==
    \A patron_id \in PatronIdInputs, book_id \in BookIdInputs, fail \in {0, 1, 2} :
        LET b == borrow_result(books, records, today, patron_id, book_id, fail)
            r == return_result(books, records, today, patron_id, book_id, fail)
        IN  /\ (book_id \in BookIds /\ books[book_id].available_copies = 0)
               => (~b.ok /\ b.books = books /\ b.records = records)
            /\ b.ok => /\ book_id \in BookIds
                       /\ b.books = [books EXCEPT ![book_id].available_copies = @ - 1]
            /\ r.ok => /\ book_id \in BookIds
                       /\ r.books = [books EXCEPT ![book_id].available_copies = @ + 1]

\* a borrow of a book with no copy left has just been rejected
BorrowOfLastCopyRejected ==
    /\ res.op = "borrow"
    /\ ~res.ok
    /\ ~InvalidPatronId(res.patron_id)
    /\ res.book_id \in BookIds
    /\ books[res.book_id].available_copies = 0
    /\ ActiveRowsOfBook(res.book_id) # {}

AtMostFiveActive ==
    \A patron_id \in Patrons : Cardinality(ActiveRows(patron_id)) <= BorrowLimit

\* the fee rule as the documentation states it, in cents
DocumentedFee(d) ==
    IF d = 0 THEN 0
    ELSE IF d <= 7 THEN 50 * d
    ELSE Min(350 + 100 * (d - 7), 1500)

(* C6: for an active loan matched by quote, with d = max(0, today - due    *)
(* day): d = 0 gives fee 0 and 'On time'; 1 <= d <= 7 gives 0.50*d; d > 7  *)
(* gives min(3.50 + 1.00*(d-7), 15.00); 'Overdue' whenever d > 0.  The fee *)
(* is non-decreasing in d and never exceeds 15.00 (d=5 -> 250 cents,       *)
(* d=10 -> 650, d=40 -> 1500).                                             *)
QuoteFollowsFeeRule ==
    /\ \A patron_id \in Patrons, book_id \in BookIds :
          (/\ ActiveRows(patron_id) # {}
           /\ records[FirstActiveRow(patron_id)].book_id = book_id)
          => LET q == quote_result(records, today, patron_id, book_id)
                 d == Max(0, today - records[FirstActiveRow(patron_id)].due_date)
             IN  /\ ~q.raised
                 /\ q.days_overdue = d
                 /\ q.fee_amount = DocumentedFee(d)
                 /\ q.status = IF d > 0 THEN "Overdue" ELSE "On time"
    /\ \A d \in 0..MaxDay :
          /\ LateFee(d) <= LateFee(d + 1)
          /\ LateFee(d) <= 1500
    /\ LateFee(5) = 250 /\ LateFee(10) = 650 /\ LateFee(40) = 1500

\* a quote has just returned the capped fee for a loan more than 7 days late
QuoteCapped ==
    /\ res.op = "quote"
    /\ res.msg = "Overdue"
    /\ res.days_overdue >= 40
    /\ res.fee_amount = 1500
    /\ ActiveRowsFor(res.patron_id, res.book_id) # {}

RECURSIVE SumDocumentedFees(_)
SumDocumentedFees(rows) ==
    IF rows = {} THEN 0
    ELSE LET i == CHOOSE j \in rows : TRUE
         IN  DocumentedFee(Max(0, today - records[i].due_date))
             + SumDocumentedFees(rows \ {i})

(* C7: for a well-formed patron id, the total_late_fee of statusReport is  *)
(* the sum over all the patron's active loans of the fee the rule gives    *)
(* for that loan's own due date.                                           *)
StatusTotalIsSumOfLoanFees ==
    \A patron_id \in Patrons :
        status_result(records, today, patron_id).total_late_fee
            = SumDocumentedFees(ActiveRows(patron_id))

\* the requests that returned ok=true
RaceSucceeded == {i \in Procs : proc[i].pc = "done" /\ proc[i].ok}

(* C9: borrow checks availability and decrements in separate data-access   *)
(* calls with nothing in between: every interleaved request that passed    *)
(* the checks and inserted its row goes on to decrement and return         *)
(* ok=true, whatever the other requests did meanwhile, so two requests for *)
(* the one copy can both succeed and leave available_copies negative.      *)
RaceDecrementUnguarded ==
    /\ books[1].available_copies = books[1].total_copies - Cardinality(RaceSucceeded)
    /\ Len(records) = Cardinality(RaceSucceeded \cup {i \in Procs : proc[i].pc = "update"})

\* two requests for the one copy have both returned ok=true
RaceOversold ==
    /\ \E i, j \in Procs :
          /\ i # j
          /\ {i, j} \subseteq RaceSucceeded
          /\ proc[i].book_id = 1 /\ proc[j].book_id = 1
    /\ books[1].total_copies = 1
    /\ books[1].available_copies < 0

====
